---- MODULE Spec2Model ----
(***************************************************************************)
(* ViticultureSimulator (simulatore_dati.py): the daily climate generator  *)
(* and the annual metrics deriver, as a state machine.                     *)
(*                                                                         *)
(* Numbers are fixed point, in hundredths of the unit of the code          *)
(* (Temperature_C 1234 is 12.34 degrees); a division of the code is the    *)
(* floor division of the scaled integers.  Dates are day ordinals counted  *)
(* from 2015-01-01 (ordinal 0), the year of main.py's start date.          *)
(* numpy's global random generator is a state, rng, the place reached in   *)
(* the stream of the seed; every draw advances it and what a draw returns  *)
(* depends on that state alone.  Draws range over five outcomes each.      *)
(***************************************************************************)
EXTENDS Integers, Sequences, FiniteSets, TLC

VARIABLES
    start_date, end_date, total_hectares,  \* the configuration, as __init__ keeps it
    date_range, years, data,               \* self.date_range, self.years, self.data
    rng,                                   \* the state of np.random
    pc, step, yi,                          \* position in run_simulation and in the loop
    seed, run, previous                    \* the seed, the run number, the earlier output

vars == <<start_date, end_date, total_hectares, date_range, years, data,
          rng, pc, step, yi, seed, run, previous>>

config == <<start_date, end_date, total_hectares>>
harness == <<seed, run, previous>>

(***************************************************************************)
(* Bounds of the model.                                                    *)
(***************************************************************************)
\* longest date range, in days
MaxDays == 8
\* number of initial states of the random generator
NumSeeds == 32

Min(a, b) == IF a < b THEN a ELSE b
Max(a, b) == IF a > b THEN a ELSE b

(***************************************************************************)
(* Calendar: pd.to_datetime, DatetimeIndex.year, DatetimeIndex.dayofyear.  *)
(***************************************************************************)
IsLeap(y) == (y % 4 = 0 /\ y % 100 # 0) \/ y % 400 = 0

DaysInYear(y) == IF IsLeap(y) THEN 366 ELSE 365

DaysBeforeMonth(y, m) ==
    LET cum == <<0, 31, 59, 90, 120, 151, 181, 212, 243, 273, 304, 334>>
    IN  cum[m] + (IF m > 2 /\ IsLeap(y) THEN 1 ELSE 0)

RECURSIVE DaysBeforeYear(_)
DaysBeforeYear(y) ==
    IF y <= 2015 THEN 0 ELSE DaysBeforeYear(y - 1) + DaysInYear(y - 1)

\* pd.to_datetime('YYYY-MM-DD'): the timestamp of a calendar date
ToDatetime(y, m, d) == DaysBeforeYear(y) + DaysBeforeMonth(y, m) + (d - 1)

RECURSIVE YearFrom(_, _)
YearFrom(y, ord) ==
    IF ord < DaysInYear(y) THEN y ELSE YearFrom(y + 1, ord - DaysInYear(y))

\* DatetimeIndex.year of one timestamp
YearOf(ord) == YearFrom(2015, ord)

\* DatetimeIndex.dayofyear of one timestamp (1..366)
DayOfYear(ord) == ord - DaysBeforeYear(YearOf(ord)) + 1

\* mutant of DateRange: the end date is left out
DateRangeExclusiveEnd(start, end) ==
    IF end <= start THEN << >>
    ELSE [i \in 1..(end - start) |-> start + (i - 1)]

\* pd.date_range(start, end, freq='D'): empty when end is before start
DateRange(start, end) ==
    IF end < start THEN << >>
    ELSE [i \in 1..(end - start + 1) |-> start + (i - 1)]

RECURSIVE UniqueFrom(_, _, _)
UniqueFrom(s, i, acc) ==
    IF i > Len(s) THEN acc
    ELSE IF \E j \in 1..Len(acc) : acc[j] = s[i]
         THEN UniqueFrom(s, i + 1, acc)
         ELSE UniqueFrom(s, i + 1, Append(acc, s[i]))

\* Index.unique(): the distinct values in order of first appearance
Unique(s) == UniqueFrom(s, 1, << >>)

\* mutant of YearsOf: every year from the start date's to the end date's,
\* whether or not the index holds a day of it
YearsFromConfig(index) ==
    [i \in 1..Max(0, IF end_date < start_date THEN 1
                     ELSE YearOf(end_date) - YearOf(start_date) + 1) |->
        YearOf(start_date) + (i - 1)]

\* self.data.index.year.unique()
YearsOf(index) == Unique([i \in 1..Len(index) |-> YearOf(index[i])])

(***************************************************************************)
(* The table: an index of dates and named columns over it.                 *)
(***************************************************************************)
\* pd.DataFrame(index=date_range): no column yet
NewFrame(index) == [index |-> index, columns |-> << >>]

NumRows(df) == Len(df.index)

HasCol(df, name) == name \in DOMAIN df.columns

\* df[name] = values (a whole column is written or replaced)
SetCol(df, name, values) ==
    [df EXCEPT !.columns =
        [c \in (DOMAIN df.columns) \cup {name} |->
            IF c = name THEN values ELSE df.columns[c]]]

\* df[name] = scalar
SetColScalar(df, name, v) == SetCol(df, name, [i \in 1..NumRows(df) |-> v])

\* df.loc[mask, name] = scalar
SetWhere(df, mask, name, v) ==
    SetCol(df, name,
        [i \in 1..NumRows(df) |-> IF mask[i] THEN v ELSE df.columns[name][i]])

\* np.nan, the undefined value of a cell
NaN == -999999999

(***************************************************************************)
(* Arithmetic helpers.                                                     *)
(***************************************************************************)
\* ndarray.clip(lo, hi) of one value
Clip(v, lo, hi) == Min(Max(v, lo), hi)

\* mutant of Clamp: the floor is forgotten
ClampCeilingOnly(v, lo, hi) == Min(v, hi)

\* max(min(v, hi), lo), the clamp of the annual values
Clamp(v, lo, hi) == Max(Min(v, hi), lo)

RECURSIVE SumTo(_, _)
SumTo(s, n) == IF n = 0 THEN 0 ELSE SumTo(s, n - 1) + s[n]

Sum(s) == SumTo(s, Len(s))

\* Series.mean() of a non-empty series
Mean(s) == Sum(s) \div Len(s)

\* mutant of CountTrue: Series.count() for Series.sum(), every row counted
CountAll(b) == Len(b)

\* number of True of a boolean series
CountTrue(b) == Cardinality({i \in 1..Len(b) : b[i]})

\* 1000 * sin(2*pi*t/365) for t in 0..364 (Bhaskara's rational form on each
\* half period, exact at the zeros and the extrema)
SinMilli(t) ==
    LET u    == 2 * t
        h(w) == (16000 * (w * (365 - w))) \div (5 * 365 * 365 - 4 * (w * (365 - w)))
    IN  IF u <= 365 THEN h(u) ELSE 0 - h(u - 365)

\* amplitude * sin(2*pi*(day_of_year - offset)/365), in hundredths
Seasonal(amplitude, doy, offset) ==
    (amplitude * SinMilli((doy - offset) % 365)) \div 10

(***************************************************************************)
(* The random generator (np.random's global state).                        *)
(***************************************************************************)
\* np.random.seed(s): the state the seed puts the generator in
Seeded(s) == s * 977

\* the state after one draw: the generator moves one place along its stream
NextRng(x) == x + 1

\* the state after k draws
Advance(x, k) == x + k

\* the 16-bit output of the generator at place c of its stream
Output(c) ==
    LET t == (25173 * (c % 65536) + 13849) % 65536
    IN  ((t % 256) * (t \div 256) + t) % 65536

\* the raw outcome (0..4) of the k-th draw made from state x
Raw(x, k) == (Output(Advance(x, k)) \div 16) % 5

\* k-th standard normal deviate, in hundredths: from -6 to +20 sigma
StdNormal(x, k) == <<-600, -150, 0, 150, 2000>>[Raw(x, k) + 1]

\* np.random.normal(loc, scale): loc in hundredths, scale as scaleNum/scaleDen
Normal(x, k, loc, scaleNum, scaleDen) ==
    loc + (scaleNum * StdNormal(x, k)) \div scaleDen

\* np.random.rand(): uniform in [0,1), in ten-thousandths
Rand(x, k) == <<100, 2000, 4000, 6000, 9900>>[Raw(x, k) + 1]

\* mutant of Exponential: a generator that np.random.seed does not reset
ExponentialUnseeded(x, k) == 7 * <<1, 50, 100, 300, 500>>[Raw(x + 31 * run, k) + 1]

\* np.random.exponential(scale=7.0): non-negative, in hundredths
Exponential(x, k) == 7 * <<1, 50, 100, 300, 500>>[Raw(x, k) + 1]

(***************************************************************************)
(* generate_ambient_data                                                   *)
(***************************************************************************)
\* Series.rolling(window=7, center=True, min_periods=1).mean()
\* mutant of RollingMean: center=True is missing, the window trails the day
RollingMeanTrailing(s) ==
    [i \in 1..Len(s) |->
        LET lo == Max(1, i - 6)
        IN  (SumTo(s, i) - SumTo(s, lo - 1)) \div (i - lo + 1)]

RollingMean(s) ==
    [i \in 1..Len(s) |->
        LET lo == Max(1, i - 3)
            hi == Min(Len(s), i + 3)
        IN  (SumTo(s, hi) - SumTo(s, lo - 1)) \div (hi - lo + 1)]

\* the four base columns, before the coupling pass; draws are consumed in the
\* order of the code: noise, rain test, rain amount, humidity, irradiance
BaseTemperature(index, x) ==
    LET n == Len(index)
        random_noise   == [i \in 1..n |-> Normal(x, i, 0, 3, 1)]
        smoothed_noise == RollingMean(random_noise)
    IN  [i \in 1..n |->
            1200 + (Seasonal(10, DayOfYear(index[i]), 110) + 300) + smoothed_noise[i]]

IsRaining(index, x) ==
    LET n == Len(index)
    IN  [i \in 1..n |->
            Rand(x, n + i) < 2500 + 2 * SinMilli((DayOfYear(index[i]) - 60) % 365)]

\* mutant of BasePrecipitation: the two branches of np.where are exchanged
BasePrecipitationSwapped(index, x) ==
    LET n == Len(index)
        is_raining == IsRaining(index, x)
    IN  [i \in 1..n |-> IF is_raining[i] THEN 0 ELSE Exponential(x, 2 * n + i)]

BasePrecipitation(index, x) ==
    LET n == Len(index)
        is_raining == IsRaining(index, x)
    IN  [i \in 1..n |-> IF is_raining[i] THEN Exponential(x, 2 * n + i) ELSE 0]

BaseHumidity(index, x) ==
    LET n == Len(index)
    IN  [i \in 1..n |-> Clip(Normal(x, 3 * n + i, 7500, 12, 1), 0, 10000)]

\* mutant of BaseIrradiance: no floor of 20
BaseIrradianceNoFloor(index, x) ==
    LET n == Len(index)
    IN  [i \in 1..n |->
            18000 + Seasonal(150, DayOfYear(index[i]), 80)
                  + Normal(x, 4 * n + i, 0, 40, 1)]

BaseIrradiance(index, x) ==
    LET n == Len(index)
    IN  [i \in 1..n |->
            Max(18000 + Seasonal(150, DayOfYear(index[i]), 80)
                      + Normal(x, 4 * n + i, 0, 40, 1), 2000)]

\* Temperature_C += Solar_Irradiance_W_m2 * 0.005
CoupledTemperature(temp, irr) ==
    [i \in 1..Len(temp) |-> temp[i] + (irr[i] * 5) \div 1000]

\* mutant of CoupledHumidity: the second clip is forgotten
CoupledHumidityUnclipped(hum, temp) ==
    [i \in 1..Len(hum) |-> hum[i] - temp[i] \div 2]

\* Humidity_percent -= Temperature_C * 0.5, then clip(0, 100)
CoupledHumidity(hum, temp) ==
    [i \in 1..Len(hum) |-> Clip(hum[i] - temp[i] \div 2, 0, 10000)]

\* mutant of Generated: the humidity is lowered before the temperature is
\* raised, so by half of the temperature before coupling
GeneratedHumidityFirst(df, hectares, x) ==
    LET irr  == BaseIrradiance(df.index, x)
        hum  == CoupledHumidity(BaseHumidity(df.index, x), BaseTemperature(df.index, x))
        temp == CoupledTemperature(BaseTemperature(df.index, x), irr)
        d1 == SetCol(df, "Temperature_C", temp)
        d2 == SetCol(d1, "Precipitation_mm", BasePrecipitation(df.index, x))
        d3 == SetCol(d2, "Humidity_percent", hum)
        d4 == SetCol(d3, "Solar_Irradiance_W_m2", irr)
    IN  SetColScalar(d4, "Hectares_Simulated", hectares)

\* mutant of Generated: the default of 600 hectares is written, not the
\* configured count
GeneratedDefaultHectares(df, hectares, x) ==
    LET irr  == BaseIrradiance(df.index, x)
        temp == CoupledTemperature(BaseTemperature(df.index, x), irr)
        hum  == CoupledHumidity(BaseHumidity(df.index, x), temp)
        d1 == SetCol(df, "Temperature_C", temp)
        d2 == SetCol(d1, "Precipitation_mm", BasePrecipitation(df.index, x))
        d3 == SetCol(d2, "Humidity_percent", hum)
        d4 == SetCol(d3, "Solar_Irradiance_W_m2", irr)
    IN  SetColScalar(d4, "Hectares_Simulated", 600)

\* the table after generate_ambient_data, from random state x
Generated(df, hectares, x) ==
    LET irr  == BaseIrradiance(df.index, x)
        temp == CoupledTemperature(BaseTemperature(df.index, x), irr)
        hum  == CoupledHumidity(BaseHumidity(df.index, x), temp)
        d1 == SetCol(df, "Temperature_C", temp)
        d2 == SetCol(d1, "Precipitation_mm", BasePrecipitation(df.index, x))
        d3 == SetCol(d2, "Humidity_percent", hum)
        d4 == SetCol(d3, "Solar_Irradiance_W_m2", irr)
    IN  SetColScalar(d4, "Hectares_Simulated", hectares)

\* mutant of RunSimulation: the deriver is called first
RunSimulationDeriverFirst ==
    <<"calculate_annual_metrics", "generate_ambient_data", "return">>

\* run_simulation: the stages in the order it calls them
RunSimulation == <<"generate_ambient_data", "calculate_annual_metrics", "return">>

Stage == IF pc = "run_simulation" THEN RunSimulation[step] ELSE "none"

GenerateAmbientData ==
    /\ Stage = "generate_ambient_data"
    /\ data' = Generated(data, total_hectares, rng)
    /\ rng' = Advance(rng, 5 * Len(date_range))
    /\ step' = step + 1
    /\ UNCHANGED <<config, date_range, years, pc, yi, harness>>

(***************************************************************************)
(* calculate_annual_metrics                                                *)
(***************************************************************************)
ClimateColumns ==
    {"Temperature_C", "Precipitation_mm", "Humidity_percent", "Solar_Irradiance_W_m2"}

AnnualColumns ==
    {"Yield_kg_ha", "Grape_Sugar_Level", "Production_Cost_EUR_ha",
     "Selling_Price_EUR_kg", "Revenue_EUR_ha"}

\* mutant of YearMask: the comparison is <= (self.data.index.year <= year),
\* so a year's values also land on the rows of the years before it
YearMaskUpTo(df, year) == [i \in 1..NumRows(df) |-> YearOf(df.index[i]) <= year]

\* mutant of YearMask: the year is read one day late
YearMaskShifted(df, year) ==
    [i \in 1..NumRows(df) |-> YearOf(df.index[i] + 1) = year]

\* self.data.index.year == year
YearMask(df, year) == [i \in 1..NumRows(df) |-> YearOf(df.index[i]) = year]

RECURSIVE FilterTo(_, _, _)
FilterTo(s, mask, n) ==
    IF n = 0 THEN << >>
    ELSE IF mask[n] THEN Append(FilterTo(s, mask, n - 1), s[n])
         ELSE FilterTo(s, mask, n - 1)

\* series[mask]: the values of the rows the mask selects, in order
Filter(s, mask) == FilterTo(s, mask, Len(s))

\* the five NaN columns written before the loop
InitAnnualColumns(df) ==
    LET d1 == SetColScalar(df, "Yield_kg_ha", NaN)
        d2 == SetColScalar(d1, "Grape_Sugar_Level", NaN)
        d3 == SetColScalar(d2, "Production_Cost_EUR_ha", NaN)
        d4 == SetColScalar(d3, "Selling_Price_EUR_kg", NaN)
    IN  SetColScalar(d4, "Revenue_EUR_ha", NaN)

\* yearly_data = self.data[self.data.index.year == year]: its climate columns
YearlyData(df, year) ==
    [c \in ClimateColumns |-> Filter(df.columns[c], YearMask(df, year))]

\* len(yearly_data)
TotalDays(df, year) == CountTrue(YearMask(df, year))

\* mutant of Penalty: the ratio is taken over the rows of the whole table
PenaltyOverWholeTable(flags, total_days, weight) ==
    (CountTrue(flags) * weight * 100) \div NumRows(data)

\* (condition).sum() / total_days * weight, in hundredths
Penalty(flags, total_days, weight) ==
    (CountTrue(flags) * weight * 100) \div total_days

\* mutant of RevenuePerHa: the revenue is clamped like the other annual
\* values, to a floor of 0
RevenueFlooredAtZero(final_yield, final_selling_price_per_kg, final_production_cost_per_ha) ==
    Max((final_yield * final_selling_price_per_kg) \div 100
            - final_production_cost_per_ha, 0)

\* revenue_per_ha = (final_yield * final_selling_price_per_kg) - final_production_cost_per_ha
RevenuePerHa(final_yield, final_selling_price_per_kg, final_production_cost_per_ha) ==
    (final_yield * final_selling_price_per_kg) \div 100
        - final_production_cost_per_ha

\* the body of the loop up to the assignments: the five values of one year,
\* with the four draws taken from random state x in the order of the code
AnnualMetrics(df, year, x) ==
    LET yd   == YearlyData(df, year)
        temp == yd["Temperature_C"]
        prec == yd["Precipitation_mm"]
        hum  == yd["Humidity_percent"]
        irr  == yd["Solar_Irradiance_W_m2"]
        total_days == Len(temp)
        base_yield == Normal(x, 1, 1200000, 800, 1)
        base_sugar == Normal(x, 2, 1700, 1, 2)
        base_cost_per_ha == Normal(x, 3, 1000000, 1000, 1)
        base_price == Normal(x, 4, 400, 8, 10)
        final_production_cost_per_ha == Max(base_cost_per_ha, 800000)
    IN  IF total_days = 0
        THEN \* the mean of no rows and 0/0 are NaN, and min and max keep a NaN
             [yield |-> NaN, sugar |-> NaN, cost |-> final_production_cost_per_ha,
              price |-> NaN, revenue |-> NaN]
        ELSE
        LET mean_solar_irradiance == Mean(irr)
            solar_effect_annual == (mean_solar_irradiance - 20000) * 15
            extreme_temp_penalty ==
                Penalty([i \in 1..total_days |-> temp[i] > 3500 \/ temp[i] < 500],
                        total_days, 4000)
            disease_risk_penalty ==
                Penalty([i \in 1..total_days |->
                            temp[i] > 2500 /\ hum[i] > 8000 /\ prec[i] > 0],
                        total_days, 3500)
            extreme_precip_penalty ==
                Penalty([i \in 1..total_days |-> prec[i] > 2000], total_days, 3000)
            final_yield ==
                Clamp(base_yield + solar_effect_annual - extreme_temp_penalty
                          - disease_risk_penalty - extreme_precip_penalty,
                      800000, 1500000)
            mean_temperature_c == Mean(temp)
            final_sugar_level ==
                Clamp(base_sugar + mean_solar_irradiance \div 200
                          + mean_temperature_c \div 20, 1500, 1950)
            quality_effect == (final_sugar_level - 1750) \div 2
            final_selling_price_per_kg ==
                Clamp(base_price + quality_effect, 350, 600)
            revenue_per_ha ==
                RevenuePerHa(final_yield, final_selling_price_per_kg,
                             final_production_cost_per_ha)
        IN  [yield |-> final_yield, sugar |-> final_sugar_level,
             cost |-> final_production_cost_per_ha,
             price |-> final_selling_price_per_kg, revenue |-> revenue_per_ha]

\* mutant of Broadcast: the first assignment names no column
\* (self.data.loc[mask] = final_yield), so it fills the whole rows
BroadcastWholeRows(df, year, m) ==
    LET mask == YearMask(df, year)
        d1 == [df EXCEPT !.columns =
                  [c \in DOMAIN df.columns |->
                      [i \in 1..NumRows(df) |->
                          IF mask[i] THEN m.yield ELSE df.columns[c][i]]]]
        d2 == SetWhere(d1, mask, "Grape_Sugar_Level", m.sugar)
        d3 == SetWhere(d2, mask, "Production_Cost_EUR_ha", m.cost)
        d4 == SetWhere(d3, mask, "Selling_Price_EUR_kg", m.price)
    IN  SetWhere(d4, mask, "Revenue_EUR_ha", m.revenue)

\* mutant of Broadcast: the assignment of the revenue is missing
BroadcastNoRevenue(df, year, m) ==
    LET mask == YearMask(df, year)
        d1 == SetWhere(df, mask, "Yield_kg_ha", m.yield)
        d2 == SetWhere(d1, mask, "Grape_Sugar_Level", m.sugar)
        d3 == SetWhere(d2, mask, "Production_Cost_EUR_ha", m.cost)
    IN  SetWhere(d3, mask, "Selling_Price_EUR_kg", m.price)

\* the five assignments self.data.loc[self.data.index.year == year, col] = value
Broadcast(df, year, m) ==
    LET mask == YearMask(df, year)
        d1 == SetWhere(df, mask, "Yield_kg_ha", m.yield)
        d2 == SetWhere(d1, mask, "Grape_Sugar_Level", m.sugar)
        d3 == SetWhere(d2, mask, "Production_Cost_EUR_ha", m.cost)
        d4 == SetWhere(d3, mask, "Selling_Price_EUR_kg", m.price)
    IN  SetWhere(d4, mask, "Revenue_EUR_ha", m.revenue)

\* lines 101-105: the annual columns are created, all NaN, and the loop starts
BeginAnnualMetrics ==
    /\ Stage = "calculate_annual_metrics"
    /\ data' = InitAnnualColumns(data)
    /\ pc' = "calculate_annual_metrics"
    /\ yi' = 1
    /\ UNCHANGED <<config, date_range, years, rng, step, harness>>

\* one iteration of `for year in self.years`; reading a climate column the
\* table does not have raises KeyError
YearIteration ==
    /\ pc = "calculate_annual_metrics"
    /\ yi <= Len(years)
    /\ IF ClimateColumns \subseteq DOMAIN data.columns
       THEN /\ data' = Broadcast(data, years[yi], AnnualMetrics(data, years[yi], rng))
            /\ rng' = Advance(rng, 4)
            /\ yi' = yi + 1
            /\ pc' = pc
       ELSE /\ pc' = "raised"
            /\ rng' = Advance(rng, 1)
            /\ UNCHANGED <<data, yi>>
    /\ UNCHANGED <<config, date_range, years, step, harness>>

\* the loop is exhausted: calculate_annual_metrics returns to run_simulation
EndAnnualMetrics ==
    /\ pc = "calculate_annual_metrics"
    /\ yi > Len(years)
    /\ pc' = "run_simulation"
    /\ step' = step + 1
    /\ UNCHANGED <<config, date_range, years, data, rng, yi, harness>>

\* return self.data
ReturnData ==
    /\ Stage = "return"
    /\ pc' = "returned"
    /\ UNCHANGED <<config, date_range, years, data, rng, step, yi, harness>>

(***************************************************************************)
(* Configurations and the state after __init__.                            *)
(***************************************************************************)
StartDates ==
    { ToDatetime(2015, 8, 1), ToDatetime(2015, 12, 30),
      ToDatetime(2016, 2, 27), ToDatetime(2016, 12, 29),
      ToDatetime(2020, 1, 1) }

HectareValues == {-1, 0, 100, 600}

Init ==
    /\ start_date \in StartDates
    /\ end_date \in (start_date - 2)..(start_date + MaxDays - 1)
    /\ total_hectares \in HectareValues
    /\ date_range = DateRange(start_date, end_date)
    /\ data = NewFrame(date_range)
    /\ years = YearsOf(date_range)
    /\ seed \in 0..(NumSeeds - 1)
    /\ rng = Seeded(seed)
    /\ pc = "run_simulation"
    /\ step = 1
    /\ yi = 0
    /\ run = 1
    /\ previous = data

Next ==
    \/ GenerateAmbientData
    \/ BeginAnnualMetrics
    \/ YearIteration
    \/ EndAnnualMetrics
    \/ ReturnData

Spec == Init /\ [][Next]_vars

(***************************************************************************)
(* The pipeline run twice in one process, main() after np.random.seed(s)   *)
(* each time: the simulator is constructed again from the same             *)
(* configuration and the generator is put back in the state of the seed.   *)
(***************************************************************************)
Rerun ==
    /\ pc = "returned"
    /\ run = 1
    /\ previous' = data
    /\ run' = 2
    /\ rng' = Seeded(seed)
    /\ date_range' = DateRange(start_date, end_date)
    /\ data' = NewFrame(date_range')
    /\ years' = YearsOf(date_range')
    /\ pc' = "run_simulation"
    /\ step' = 1
    /\ yi' = 0
    /\ UNCHANGED <<config, seed>>

NextSeeded == Next \/ Rerun

SpecSeeded == Init /\ [][NextSeeded]_vars

(***************************************************************************)
(* The consumer's schema check (dashboard.py).                             *)
(***************************************************************************)
required_columns ==
    {"Temperature_C", "Precipitation_mm", "Humidity_percent",
     "Solar_Irradiance_W_m2", "Hectares_Simulated", "Yield_kg_ha",
     "Grape_Sugar_Level", "Production_Cost_EUR_ha", "Selling_Price_EUR_kg",
     "Revenue_EUR_ha"}

\* missing_columns = [col for col in required_columns if col not in df.columns]
missing_columns(df) == {c \in required_columns : ~HasCol(df, c)}

(***************************************************************************)
(* Phases of a run, read off the state.                                    *)
(***************************************************************************)
\* generate_ambient_data has returned (Hectares_Simulated is its last write)
AfterGenerator == HasCol(data, "Hectares_Simulated")

\* calculate_annual_metrics has returned
AfterDeriver ==
    /\ HasCol(data, "Revenue_EUR_ha")
    /\ pc \in {"run_simulation", "returned"}

Rows == 1..NumRows(data)

Col(name) == data.columns[name]

\* b is the calendar day after a, by year and day of year
NextCalendarDay(a, b) ==
    \/ YearOf(b) = YearOf(a) /\ DayOfYear(b) = DayOfYear(a) + 1
    \/ /\ YearOf(b) = YearOf(a) + 1
       /\ DayOfYear(b) = 1
       /\ DayOfYear(a) = DaysInYear(YearOf(a))

(***************************************************************************)
(* C1: when the end date is not before the start date, the table has one   *)
(* row per calendar day from the start date to the end date inclusive, in  *)
(* ascending order without duplicate or gap, in every state of the run     *)
(* (before and after the generator and the deriver), and every column      *)
(* covers exactly these rows.                                              *)
(***************************************************************************)
C1_OneRowPerDay ==
    end_date >= start_date =>
        /\ NumRows(data) = end_date - start_date + 1
        /\ data.index[1] = start_date
        /\ data.index[NumRows(data)] = end_date
        /\ \A i \in 1..(NumRows(data) - 1) :
              /\ data.index[i] < data.index[i + 1]
              /\ NextCalendarDay(data.index[i], data.index[i + 1])
        /\ \A c \in DOMAIN data.columns : Len(data.columns[c]) = NumRows(data)

C1_Witness ==
    /\ pc = "returned"
    /\ NumRows(data) >= 3
    /\ Len(years) = 2
    /\ missing_columns(data) = {}

(***************************************************************************)
(* C2: after run_simulation, the five annual fields have one value per     *)
(* calendar year: two rows of the same year agree on each of them.         *)
(***************************************************************************)
C2_ConstantWithinYear ==
    pc = "returned" =>
        \A i \in Rows : \A j \in Rows :
            YearOf(data.index[i]) = YearOf(data.index[j]) =>
                \A c \in AnnualColumns : Col(c)[i] = Col(c)[j]

\* two years of at least two rows in all, with different yields
C2_Witness ==
    /\ pc = "returned"
    /\ Len(years) = 2
    /\ NumRows(data) >= 3
    /\ Col("Revenue_EUR_ha")[1] # Col("Revenue_EUR_ha")[NumRows(data)]

(***************************************************************************)
(* C3: after calculate_annual_metrics, on every row the yield is in        *)
(* [8000, 15000], the sugar level in [15, 19.5], the selling price in      *)
(* [3.5, 6.0] and the production cost at least 8000.                       *)
(***************************************************************************)
C3_AnnualRanges ==
    AfterDeriver =>
        \A i \in Rows :
            /\ Col("Yield_kg_ha")[i] >= 800000
            /\ Col("Yield_kg_ha")[i] <= 1500000
            /\ Col("Grape_Sugar_Level")[i] >= 1500
            /\ Col("Grape_Sugar_Level")[i] <= 1950
            /\ Col("Selling_Price_EUR_kg")[i] >= 350
            /\ Col("Selling_Price_EUR_kg")[i] <= 600
            /\ Col("Production_Cost_EUR_ha")[i] >= 800000

\* the floors of the yield and of the cost and the ceiling of the price are met
C3_Witness ==
    /\ AfterDeriver
    /\ \E i \in Rows : Col("Yield_kg_ha")[i] = 800000
    /\ \E i \in Rows : Col("Production_Cost_EUR_ha")[i] = 800000
    /\ \E i \in Rows : Col("Selling_Price_EUR_kg")[i] = 600

(***************************************************************************)
(* C4: after generate_ambient_data, the humidity is within [0, 100] on     *)
(* every row.                                                              *)
(***************************************************************************)
C4_HumidityRange ==
    AfterGenerator =>
        \A i \in Rows :
            Col("Humidity_percent")[i] >= 0 /\ Col("Humidity_percent")[i] <= 10000

\* a row of negative temperature at the ceiling: subtracting half of it took
\* the clipped humidity above 100 and the second clip brought it back
C4_Witness ==
    /\ AfterGenerator
    /\ \E i \in Rows :
          Col("Humidity_percent")[i] = 10000 /\ Col("Temperature_C")[i] < -1

(***************************************************************************)
(* C5: the irradiance is at least 20 on every row, from the moment the     *)
(* generator has written it to the end of the run.                         *)
(***************************************************************************)
C5_IrradianceFloor ==
    HasCol(data, "Solar_Irradiance_W_m2") =>
        \A i \in Rows : Col("Solar_Irradiance_W_m2")[i] >= 2000

\* the floor is met on a row of the returned table
C5_Witness ==
    /\ pc = "returned"
    /\ \E i \in Rows : Col("Solar_Irradiance_W_m2")[i] = 2000

(***************************************************************************)
(* C6: a configuration whose end date is before its start date, or whose   *)
(* hectare count is not positive, gets no climate data and no output.      *)
(***************************************************************************)
C6_InvalidConfigurationRejected ==
    (end_date < start_date \/ total_hectares <= 0) =>
        /\ pc # "returned"
        /\ DOMAIN data.columns = {}

C8_FullColumnSet ==
    pc = "returned" =>
        /\ missing_columns(data) = {}
        /\ \A c \in AnnualColumns : \A i \in Rows : Col(c)[i] # NaN

C8_Witness ==
    /\ pc = "returned"
    /\ NumRows(data) >= 2
    /\ Len(years) = 2

(***************************************************************************)
(* C9: while the deriver runs, the four climate columns are there for      *)
(* every row, the generator having returned; the deriver never fails on a  *)
(* missing column.                                                         *)
(***************************************************************************)
C9_GeneratorBeforeDeriver ==
    /\ pc = "calculate_annual_metrics" =>
          /\ AfterGenerator
          /\ \A c \in ClimateColumns :
                HasCol(data, c) /\ Len(data.columns[c]) = NumRows(data)
    /\ pc # "raised"

\* the deriver is about to read the climate of a year
C9_Witness ==
    /\ pc = "calculate_annual_metrics"
    /\ yi <= Len(years)
    /\ NumRows(data) >= 2

rng0 == Seeded(seed)

(***************************************************************************)
(* C11: the precipitation is never negative; on a day whose rain test      *)
(* (uniform draw below the seasonal probability) is false it is exactly 0, *)
(* and on a day whose test is true it is the exponential amount drawn for  *)
(* that day.                                                               *)
(***************************************************************************)
C11_Precipitation ==
    AfterGenerator =>
        \A i \in Rows :
            /\ Col("Precipitation_mm")[i] >= 0
            /\ IF IsRaining(data.index, rng0)[i]
               THEN Col("Precipitation_mm")[i]
                        = Exponential(rng0, 2 * NumRows(data) + i)
               ELSE Col("Precipitation_mm")[i] = 0

\* a wet day and a dry day in one table
C11_Witness ==
    /\ AfterGenerator
    /\ \E i \in Rows :
          IsRaining(data.index, rng0)[i] /\ Col("Precipitation_mm")[i] > 0
    /\ \E i \in Rows :
          ~IsRaining(data.index, rng0)[i] /\ Col("Precipitation_mm")[i] = 0

(***************************************************************************)
(* C12: from the end of generate_ambient_data to the end of the run,       *)
(* Hectares_Simulated is the configured total_hectares on every row; the   *)
(* deriver does not change it.                                             *)
(***************************************************************************)
C12_HectaresConstant ==
    HasCol(data, "Hectares_Simulated") =>
        /\ Len(Col("Hectares_Simulated")) = NumRows(data)
        /\ \A i \in Rows : Col("Hectares_Simulated")[i] = total_hectares

\* the range 2020-01-01..2020-01-07 with 100 hectares, after the deriver
C12_Witness ==
    /\ pc = "returned"
    /\ start_date = ToDatetime(2020, 1, 1)
    /\ end_date = ToDatetime(2020, 1, 7)
    /\ total_hectares = 100
    /\ NumRows(data) = 7
    /\ \A i \in Rows : Col("Hectares_Simulated")[i] = 100

(***************************************************************************)
(* C13: after calculate_annual_metrics, on every row the revenue is that   *)
(* row's yield times that row's selling price minus that row's production  *)
(* cost, the three as written in the table (clamped); nothing clamps the   *)
(* revenue itself.                                                         *)
(***************************************************************************)
C13_Revenue ==
    AfterDeriver =>
        \A i \in Rows :
            Col("Revenue_EUR_ha")[i] =
                (Col("Yield_kg_ha")[i] * Col("Selling_Price_EUR_kg")[i]) \div 100
                    - Col("Production_Cost_EUR_ha")[i]

\* a year of negative revenue next to a year of positive revenue, the first
\* from a yield clamped to its floor
C13_Witness ==
    /\ AfterDeriver
    /\ Len(years) = 2
    /\ \E i \in Rows :
          Col("Revenue_EUR_ha")[i] < 0 /\ Col("Yield_kg_ha")[i] = 800000
    /\ \E i \in Rows : Col("Revenue_EUR_ha")[i] > 0

(***************************************************************************)
(* The rows of one calendar year and the yield the spec gives that year,   *)
(* computed from the table the generator wrote and the year's first draw.  *)
(***************************************************************************)
YearRows(y) == {i \in Rows : YearOf(data.index[i]) = y}

\* the rows of year y on which the temperature is above 35 or below 5
ExtremeTempRows(y) ==
    {i \in YearRows(y) : Col("Temperature_C")[i] > 3500 \/ Col("Temperature_C")[i] < 500}

\* the rows of year y that are warm, humid and wet
DiseaseRows(y) ==
    {i \in YearRows(y) : /\ Col("Temperature_C")[i] > 2500
                         /\ Col("Humidity_percent")[i] > 8000
                         /\ Col("Precipitation_mm")[i] > 0}

\* the rows of year y with more than 20 mm of rain
ExtremeRainRows(y) == {i \in YearRows(y) : Col("Precipitation_mm")[i] > 2000}

\* weight * (fraction of the rows of year y that are in S), in hundredths
Weighted(S, y, weight) ==
    (Cardinality(S) * weight * 100) \div Cardinality(YearRows(y))

\* the mean of a column over the rows of year y (they are consecutive)
YearMean(name, y) ==
    LET lo == CHOOSE i \in YearRows(y) : \A k \in YearRows(y) : i <= k
        hi == CHOOSE i \in YearRows(y) : \A k \in YearRows(y) : i >= k
    IN  (SumTo(Col(name), hi) - SumTo(Col(name), lo - 1)) \div Cardinality(YearRows(y))

\* the base yield drawn for the j-th year: the first of its four draws, after
\* the five draws per row of the generator
BaseYieldOf(j) ==
    Normal(rng0 + 5 * NumRows(data) + 4 * (j - 1), 1, 1200000, 800, 1)

\* the yield before clamping, with the extreme-rain penalty or without it
RawYield(j, withRain) ==
    LET y == years[j]
    IN  BaseYieldOf(j) + (YearMean("Solar_Irradiance_W_m2", y) - 20000) * 15
            - Weighted(ExtremeTempRows(y), y, 4000)
            - Weighted(DiseaseRows(y), y, 3500)
            - (IF withRain THEN Weighted(ExtremeRainRows(y), y, 3000) ELSE 0)

Bounded(v, lo, hi) == IF v < lo THEN lo ELSE IF v > hi THEN hi ELSE v

(***************************************************************************)
(* C14: the yield written on the rows of a year is                         *)
(* clamp(base_yield + (mean irradiance of the year - 200) * 15             *)
(*       - 4000 r_temp - 3500 r_disease - 3000 r_rain, 8000, 15000),       *)
(* the three ratios and the mean taken over the rows of that year only.    *)
(***************************************************************************)
C14_YieldFormula ==
    AfterDeriver =>
        \A j \in 1..Len(years) : \A i \in YearRows(years[j]) :
            Col("Yield_kg_ha")[i] = Bounded(RawYield(j, TRUE), 800000, 1500000)

\* two years, one of them with an unclamped yield that carries a penalty for
\* extreme temperature and one for extreme rain
C14_Witness ==
    /\ AfterDeriver
    /\ Len(years) = 2
    /\ \E j \in 1..2 :
          /\ RawYield(j, TRUE) > 800000
          /\ RawYield(j, TRUE) < 1500000
          /\ ExtremeTempRows(years[j]) # {}
          /\ ExtremeRainRows(years[j]) # {}

(***************************************************************************)
(* C15: for a year in which no day has more than 20 mm of rain, the        *)
(* extreme-rain penalty is 0: the yield written is the clamp of the base   *)
(* yield plus the solar effect minus the other two penalties alone.        *)
(***************************************************************************)
C15_NoExtremeRainNoPenalty ==
    AfterDeriver =>
        \A j \in 1..Len(years) :
            ExtremeRainRows(years[j]) = {} =>
                \A i \in YearRows(years[j]) :
                    Col("Yield_kg_ha")[i]
                        = Bounded(RawYield(j, FALSE), 800000, 1500000)

\* a year with rain but never more than 20 mm, and a yield inside the clamp
C15_Witness ==
    /\ AfterDeriver
    /\ \E j \in 1..Len(years) :
          /\ ExtremeRainRows(years[j]) = {}
          /\ \E i \in YearRows(years[j]) : Col("Precipitation_mm")[i] > 0
          /\ RawYield(j, FALSE) > 800000
          /\ RawYield(j, FALSE) < 1500000

(***************************************************************************)
(* C16: the coupling pass, on every row: the temperature is the base       *)
(* temperature plus 0.5% of the floor-clamped irradiance; the humidity is  *)
(* the base humidity minus half of that updated temperature, clamped       *)
(* again to [0, 100]; irradiance and precipitation are as generated.       *)
(***************************************************************************)
C16_CouplingOrder ==
    AfterGenerator =>
        \A i \in Rows :
            /\ Col("Solar_Irradiance_W_m2")[i] = BaseIrradiance(data.index, rng0)[i]
            /\ Col("Precipitation_mm")[i] = BasePrecipitation(data.index, rng0)[i]
            /\ Col("Temperature_C")[i] =
                  BaseTemperature(data.index, rng0)[i]
                      + (Col("Solar_Irradiance_W_m2")[i] * 5) \div 1000
            /\ Col("Humidity_percent")[i] =
                  Bounded(BaseHumidity(data.index, rng0)[i]
                              - Col("Temperature_C")[i] \div 2, 0, 10000)

\* a row at the irradiance floor, and a row whose humidity, inside the range,
\* is not what half of the temperature before coupling would have given
C16_Witness ==
    /\ AfterGenerator
    /\ \E i \in Rows : Col("Solar_Irradiance_W_m2")[i] = 2000
    /\ \E i \in Rows :
          /\ Col("Humidity_percent")[i] > 0
          /\ Col("Humidity_percent")[i] < 10000
          /\ Col("Humidity_percent")[i] #
                BaseHumidity(data.index, rng0)[i]
                    - BaseTemperature(data.index, rng0)[i] \div 2

\* calculate_annual_metrics is about to start or is in its loop
InDeriver == pc = "calculate_annual_metrics" \/ Stage = "calculate_annual_metrics"

(***************************************************************************)
(* C17: no step of calculate_annual_metrics adds or deletes a row or       *)
(* changes a cell of Temperature_C, Precipitation_mm, Humidity_percent,    *)
(* Solar_Irradiance_W_m2 or Hectares_Simulated: it only attaches and fills *)
(* the five annual columns.                                                *)
(***************************************************************************)
C17_DeriverFrame ==
    [][InDeriver =>
          /\ data'.index = data.index
          /\ DOMAIN data'.columns = DOMAIN data.columns \cup AnnualColumns
          /\ \A c \in DOMAIN data.columns \ AnnualColumns :
                data'.columns[c] = data.columns[c]]_vars

\* the deriver has filled the annual columns of two years
C17_Witness ==
    /\ AfterDeriver
    /\ AfterGenerator
    /\ Len(years) = 2
    /\ NumRows(data) >= 3
    /\ \A c \in AnnualColumns : \A i \in Rows : Col(c)[i] # NaN

\* the raw noise draw of day j (line 59), nothing outside the generated range
NoiseDraw(j) == IF j \in Rows THEN Normal(rng0, j, 0, 3, 1) ELSE 0

\* the days of the centred window of day i that fall inside the range
Window(i) == {j \in Rows : j >= i - 3 /\ j <= i + 3}

\* the sum of the raw draws of the centred window of day i
WindowSum(i) ==
    NoiseDraw(i - 3) + NoiseDraw(i - 2) + NoiseDraw(i - 1) + NoiseDraw(i)
        + NoiseDraw(i + 1) + NoiseDraw(i + 2) + NoiseDraw(i + 3)

\* the noise left in the temperature of day i once the baseline, the
\* seasonal terms and the irradiance coupling are taken away
TemperatureNoise(i) ==
    Col("Temperature_C")[i]
        - (Col("Solar_Irradiance_W_m2")[i] * 5) \div 1000
        - 1200 - 300 - Seasonal(10, DayOfYear(data.index[i]), 110)

(***************************************************************************)
(* C18: the temperature noise of day i is the mean of the raw draws of the *)
(* days of the centred window [i-3, i+3] that are inside the generated     *)
(* range; on a single-day range it is that day's own draw.                 *)
(***************************************************************************)
C18_CentredWindow ==
    AfterGenerator =>
        /\ \A i \in Rows :
              TemperatureNoise(i) = WindowSum(i) \div Cardinality(Window(i))
        /\ NumRows(data) = 1 => TemperatureNoise(1) = NoiseDraw(1)

\* a range with a full window of seven days and an edge window of four, where
\* the noise of the fourth day is neither its own draw nor the trailing mean
C18_Witness ==
    /\ AfterGenerator
    /\ NumRows(data) >= 7
    /\ Cardinality(Window(4)) = 7
    /\ Cardinality(Window(1)) = 4
    /\ TemperatureNoise(4) # NoiseDraw(4)
    /\ TemperatureNoise(4) #
          (NoiseDraw(1) + NoiseDraw(2) + NoiseDraw(3) + NoiseDraw(4)) \div 4
    /\ TemperatureNoise(1) # NoiseDraw(1)

\* a single-day range: the one row carries its own draw
C18_SingleDay ==
    /\ AfterGenerator
    /\ NumRows(data) = 1
    /\ TemperatureNoise(1) = NoiseDraw(1)
    /\ NoiseDraw(1) # 0

\* all five annual fields are NaN on all the rows of year y
YearUndefined(y) ==
    \A i \in YearRows(y) : \A c \in AnnualColumns : Col(c)[i] = NaN

\* all five annual fields are defined on all the rows of year y
YearDefined(y) ==
    \A i \in YearRows(y) : \A c \in AnnualColumns : Col(c)[i] # NaN

\* between two iterations of the loop: the years before position yi are
\* processed, the others are not; self.years is strictly ascending and
\* covers every row
LoopBoundary ==
    pc = "calculate_annual_metrics" =>
        /\ yi \in 1..(Len(years) + 1)
        /\ \A j \in 1..Len(years) :
              /\ YearRows(years[j]) # {}
              /\ j < yi => YearDefined(years[j]) /\ ~YearUndefined(years[j])
              /\ j >= yi => YearUndefined(years[j]) /\ ~YearDefined(years[j])
        /\ \A j \in 1..(Len(years) - 1) : years[j] < years[j + 1]
        /\ \A i \in Rows : \E j \in 1..Len(years) : years[j] = YearOf(data.index[i])

\* an iteration moves to the next year and leaves the annual fields of the
\* years already processed as they are
IterationKeepsProcessed ==
    (pc = "calculate_annual_metrics" /\ yi <= Len(years)) =>
        /\ pc' = "calculate_annual_metrics"
        /\ yi' = yi + 1
        /\ years' = years
        /\ \A j \in 1..(yi - 1) :
              \A i \in YearRows(years[j]) : \A c \in AnnualColumns :
                  data'.columns[c][i] = data.columns[c][i]

(***************************************************************************)
(* C19: at every boundary between iterations of the per-year loop each     *)
(* year has its five annual fields either all NaN on all its rows (not yet *)
(* processed) or all defined on all its rows (processed); the years are    *)
(* processed once each in ascending order, and no iteration overwrites the *)
(* values of a year processed before.                                      *)
(***************************************************************************)
C19_YearStates == []LoopBoundary /\ [][IterationKeepsProcessed]_vars

\* between the first and the second iteration of a two-year range: the first
\* year is defined, the second is still NaN
C19_Witness ==
    /\ pc = "calculate_annual_metrics"
    /\ Len(years) = 2
    /\ yi = 2
    /\ YearDefined(years[1])
    /\ YearUndefined(years[2])
    /\ Cardinality(YearRows(years[1])) >= 2
    /\ Cardinality(YearRows(years[2])) >= 2

====
